---- MODULE Spec2Model ----
(***************************************************************************)
(* Model of sktime's SFA_NEW transformer                                   *)
(* (sktime/transformations/panel/dictionary_based/_sfa_new.py).            *)
(*                                                                         *)
(* One SFA_NEW object is modelled: its constructor arguments, the fields   *)
(* fit() stores, and the results of the last fit() / transform() call.     *)
(* Arrays are functions over 0..n-1, as in the source.  A panel X is       *)
(* given by its shape; the values numpy's FFT and the standard deviation   *)
(* produce for a window are drawn from a bounded pool (Sample).            *)
(* Integer words are sets of bit positions, so that shifts, ors and the    *)
(* truncation to the int32 output array are exact.                         *)
(***************************************************************************)
EXTENDS Integers, Sequences, FiniteSets, TLC

(***************************************************************************)
(* Bounds of the model.                                                    *)
(***************************************************************************)
MaxWordLength == 2
MaxAlphabet == 3
MaxWindow == 3
MaxLen == 3
FitInst == 2
MaxTransformInst == 1

(***************************************************************************)
(* Program constants.                                                      *)
(***************************************************************************)
\* sys.float_info.max, the sentinel _mcb and _k_bins_discretizer store
FloatMax == 1000000000
\* np.inf, the sentinel _igb and _transform_case store
Inf == 2000000000
\* width of the np.int32 output array of generate_words
WordWidth == 32
\* width of a numba integer local (int64)
LocalWidth == 64

binning_methods == {"equi-depth", "equi-width", "information-gain", "kmeans"}

(***************************************************************************)
(* Arrays.                                                                 *)
(***************************************************************************)
\* an array held by value: every element is computed once
Array(arr) == arr @@ <<>>

Size(arr) == Cardinality(DOMAIN arr)

Values(arr) == {arr[i] : i \in DOMAIN arr}

Min(a, b) == IF a <= b THEN a ELSE b

Max(a, b) == IF a >= b THEN a ELSE b

\* np.max of a non-empty array
ArrMax(arr) == CHOOSE v \in Values(arr) : \A u \in Values(arr) : u <= v

\* np.sort of a one-dimensional array
NpSort(arr) ==
    Array([i \in DOMAIN arr |->
        CHOOSE v \in Values(arr) :
            /\ Cardinality({j \in DOMAIN arr : arr[j] < v}) <= i
            /\ i < Cardinality({j \in DOMAIN arr : arr[j] <= v})])

\* np.argsort(-key): indices by descending key, equal keys in index order
ArgSortDesc(key) ==
    Array([i \in DOMAIN key |->
        CHOOSE j \in DOMAIN key :
            Cardinality({k \in DOMAIN key :
                \/ key[k] > key[j]
                \/ key[k] = key[j] /\ k < j}) = i])

\* arr[:n]
Take(arr, n) == Array([i \in 0..(Min(n, Size(arr)) - 1) |-> arr[i]])

\* a Python slice [start:stop] of a sequence of length n, as <<lo, hi>>
PySlice(start, stop, n) ==
    LET norm_(i) == IF i < 0 THEN Max(0, n + i) ELSE Min(i, n)
        lo == norm_(start)
        hi == norm_(stop)
    IN  <<lo, Max(lo, hi)>>

\* the indices a slice <<lo, hi>> covers
Indices(slice) == slice[1]..(slice[2] - 1)

RECURSIVE Pow2(_)
Pow2(k) == IF k = 0 THEN 1 ELSE 2 * Pow2(k - 1)

\* math.ceil(math.log2(a)) for a >= 1
RECURSIVE CeilLog2From(_, _)
CeilLog2From(a, k) == IF Pow2(k) >= a THEN k ELSE CeilLog2From(a, k + 1)

CeilLog2(a) == CeilLog2From(a, 0)

\* np.int32(np.log2(a)) for a >= 1
FloorLog2(a) == IF Pow2(CeilLog2(a)) = a THEN CeilLog2(a) ELSE CeilLog2(a) - 1

\* math.ceil(a / b) for a >= 0, b >= 1
CeilDiv(a, b) == (a + b - 1) \div b

(***************************************************************************)
(* Integer words as sets of bit positions.                                 *)
(***************************************************************************)
\* the bits of a bin index (bin indices are below 2^8 in this model)
BitsOf(n) == {b \in 0..7 : (n \div Pow2(b)) % 2 = 1}

\* x << k on an int64 local
Shl(x, k) == {b + k : b \in x} \cap (0..(LocalWidth - 1))

\* x | y
BitOr(x, y) == x \cup y

\* storing an int64 into the np.int32 array keeps the low 32 bits
ToInt32(x) == x \cap (0..(WordWidth - 1))

\* reading an np.int32 element into an int64 local extends the sign bit
FromInt32(x) ==
    IF (WordWidth - 1) \in x THEN x \cup (WordWidth..(LocalWidth - 1)) ELSE x

(***************************************************************************)
(* Coefficient values.  A value is an integer number of 1/Hundredth        *)
(* hundredths; Hundredth is divisible by every alphabet size, so the       *)
(* equi-width division is exact, and by two, so that half hundredths       *)
(* exist and rounding to two decimals changes something.                   *)
(***************************************************************************)
RECURSIVE Factorial(_)
Factorial(n) == IF n <= 1 THEN 1 ELSE n * Factorial(n - 1)

Hundredth == 2 * Factorial(MaxAlphabet)

\* sample values in half hundredths
CoefPool == <<-25, 3, 10, -7, 18, 0, 31>>

\* the normalised Fourier coefficient at interleaved index k for window row
\* r of a panel: the output of np.fft.rfft divided by the window's standard
\* deviation and scaled, drawn from the pool
Sample(seed, r, k) ==
    CoefPool[((seed + 5 * r + 3 * k) % Len(CoefPool)) + 1] * (Hundredth \div 2)

\* a coefficient of np.fft.rfft over a window of m values: the imaginary
\* part of frequency 0 is zero, and so is that of frequency m / 2 when m is
\* even
Rfft(seed, r, k, m) ==
    IF k = 1 \/ (m % 2 = 0 /\ k = m + 1) THEN 0 ELSE Sample(seed, r, k)

\* np.round(v, 2): to the nearest hundredth, halves to the even hundredth
Round2(v) ==
    LET q == v \div Hundredth
        rem == v % Hundredth
    IN  IF 2 * rem < Hundredth THEN q * Hundredth
        ELSE IF 2 * rem > Hundredth THEN (q + 1) * Hundredth
        ELSE IF q % 2 = 0 THEN q * Hundredth
        ELSE (q + 1) * Hundredth

(***************************************************************************)
(* The SFA_NEW object.                                                     *)
(***************************************************************************)
VARIABLES
    word_length,     \* constructor arguments
    alphabet_size,
    window_size,
    norm,
    binning_method,
    anova,
    variance,
    bigrams,
    dft_length,      \* fields the constructor and fit() set
    support,
    letter_bits,
    word_bits,
    max_bits,
    n_instances,
    series_length,
    breakpoints,
    is_fitted,
    last_call,       \* how the last call on the object ended
    fitted,          \* what the last fit() computed before binning
    transformed      \* what the last call computed and returned, if it
                     \* was a transform()

config == <<word_length, alphabet_size, window_size, norm, binning_method,
            anova, variance, bigrams>>

model == <<dft_length, support, letter_bits, word_bits, max_bits,
           n_instances, series_length, breakpoints, is_fitted>>

vars == <<config, model, last_call, fitted, transformed>>

NoFit == [windows |-> <<>>, dft |-> <<>>, labelled |-> FALSE]

NoTransform ==
    [n_instances |-> 0, series_length |-> 0, windows |-> <<>>,
     std_windows |-> <<>>, dfts |-> <<>>, bp |-> <<>>, letters |-> <<>>,
     words |-> <<>>, outside |-> {}]

\* np.arange(n)
Arange(n) == Array([i \in 0..(n - 1) |-> i])

\* SFA_NEW.__init__
Init ==
    /\ word_length \in 1..MaxWordLength
    /\ alphabet_size \in 1..MaxAlphabet
    /\ window_size \in 1..MaxWindow
    /\ norm \in BOOLEAN
    /\ binning_method \in binning_methods \cup {"other"}
    /\ anova \in BOOLEAN
    /\ variance \in BOOLEAN
    /\ bigrams \in BOOLEAN
    /\ LET offset == IF norm THEN 2 ELSE 0
           length == IF anova \/ variance THEN window_size - offset
                     ELSE word_length
       IN  dft_length = length + (length % 2)
    /\ support = Arange(word_length)
    /\ letter_bits = 0
    /\ word_bits = 0
    /\ max_bits = 0
    /\ n_instances = 0
    /\ series_length = 0
    /\ breakpoints = <<>>
    /\ is_fitted = FALSE
    /\ last_call = "init"
    /\ fitted = NoFit
    /\ transformed = NoTransform

(***************************************************************************)
(* fit: segmentation and the exact transform of every training window.     *)
(***************************************************************************)
\* FitSplit without split[-1] = X[i, start:series_length]: the last piece is
\* the tail np.split leaves
FitSplitTail(L, W) ==
    LET num_windows_per_inst == CeilDiv(L, W)
    IN  Array([k \in 0..(num_windows_per_inst - 1) |->
            PySlice(W * k, IF k = num_windows_per_inst - 1 THEN L ELSE W * (k + 1),
                    L)])

\* the windows _binning_dft cuts one series of length L into, as index
\* ranges <<lo, hi>>: np.split at the multiples of window_size, the last
\* piece replaced by X[i, start:series_length]
FitSplit(L, W) ==
    LET num_windows_per_inst == CeilDiv(L, W)
        start == L - W
        cuts == Array([j \in 0..(num_windows_per_inst - 2) |-> W * (j + 1)])
        split == Array([k \in 0..(num_windows_per_inst - 1) |->
                    PySlice(IF k = 0 THEN 0 ELSE cuts[k - 1],
                            IF k = num_windows_per_inst - 1 THEN L ELSE cuts[k],
                            L)])
    IN  Array([k \in DOMAIN split |->
            IF k = num_windows_per_inst - 1 THEN PySlice(start, L, L)
            ELSE split[k]])

\* the number of frequency bins np.fft.rfft returns for a window of m values
RfftBins(m) == m \div 2 + 1

\* dft[:, 0::2] = reals[:, 0 : length // 2]: the assignment fails unless the
\* source has as many columns as the target, or one column to broadcast
SliceAssignFails(bins, length) ==
    LET target == length \div 2
        source == Min(target, bins)
    IN  source # target /\ source # 1

\* the interleaved index the value at interleaved index k is read from: a
\* single frequency bin is broadcast to every real and every imaginary slot
SourceIndex(bins, length, k) ==
    IF Min(length \div 2, bins) = 1 THEN k % 2 ELSE k

\* _fast_fourier_transform on the windows of one panel: rows are the
\* windows in order, columns the interleaved indices start..length-1
FastFourierTransform(seed, windows, is_norm, dftlen) ==
    LET start == IF is_norm THEN 2 ELSE 0
        length == start + dftlen
        values(r) == windows[r][3] - windows[r][2]
        bins(r) == RfftBins(values(r))
    IN  Array([r \in DOMAIN windows |->
            Array([c \in 0..(dftlen - 1) |->
                Rfft(seed, r, SourceIndex(bins(r), length, start + c),
                     values(r))])])

\* _binning_dft: the rows <<instance, lo, hi>> of the fit matrix, instance
\* after instance (dft.reshape), and the matrix itself
BinningDftWindows(n, L, W) ==
    LET split == FitSplit(L, W)
        per == Size(split)
    IN  Array([r \in 0..(n * per - 1) |->
            <<r \div per, split[r % per][1], split[r % per][2]>>])

BinningDftFails(L, W, is_norm, dftlen) ==
    LET split == FitSplit(L, W)
        start == IF is_norm THEN 2 ELSE 0
    IN  \E k \in DOMAIN split :
            SliceAssignFails(RfftBins(split[k][2] - split[k][1]), start + dftlen)

BinningDft(seed, n, L, W, is_norm, dftlen) ==
    FastFourierTransform(seed, BinningDftWindows(n, L, W), is_norm, dftlen)

(***************************************************************************)
(* fit: coefficient selection.                                             *)
(***************************************************************************)
\* the number of columns of a matrix with at least one row
Columns(dft) == Size(dft[0])

\* dft[:, c]
Column(dft, c) == Array([r \in DOMAIN dft |-> dft[r][c]])

\* dft[:, index]
SelectColumns(dft, index) ==
    Array([r \in DOMAIN dft |-> Array([j \in DOMAIN index |-> dft[r][index[j]]])])

RECURSIVE SumFirst(_, _)
SumFirst(arr, n) == IF n = 0 THEN 0 ELSE arr[n - 1] + SumFirst(arr, n - 1)

\* np.var of a column, times the square of the number of rows
Variance(column) ==
    LET n == Size(column)
        squares == Array([r \in DOMAIN column |-> column[r] * column[r]])
    IN  n * SumFirst(squares, n) - SumFirst(column, n) * SumFirst(column, n)

\* the F statistic f_classif returns for a column, drawn from the pool
FScore(seed, c) == Sample(seed, 1, 2 * c + 1)

\* EvenLength without self.dft_length + self.dft_length % 2
EvenLengthOdd(index) == ArrMax(index) + 1

\* dft_length + dft_length % 2 after dft_length = np.max(support) + 1
EvenLength(index) == (ArrMax(index) + 1) + ((ArrMax(index) + 1) % 2)

\* the variance branch of _binning: the new support, matrix and dft_length,
\* or the error np.max raises on an empty support
SelectVariance(dft, dftlen) ==
    LET dft_variance ==
            Array([c \in 0..(Columns(dft) - 1) |-> Variance(Column(dft, c))])
        selected == NpSort(Take(ArgSortDesc(dft_variance), word_length))
    IN  IF Size(selected) = 0
        THEN [error |-> TRUE, support |-> selected, dft |-> dft,
              dft_length |-> dftlen]
        ELSE [error |-> FALSE, support |-> selected,
              dft |-> SelectColumns(dft, selected),
              dft_length |-> EvenLength(selected)]

\* the anova branch of _binning; dft[:, self.support] raises when the
\* support names a column the matrix does not have
SelectAnova(seed, dft, dftlen, old_support) ==
    LET constant(c) == Variance(Column(dft, c)) = 0
        columns == {c \in 0..(Columns(dft) - 1) : ~constant(c)}
        non_constant == Array([i \in 0..(Cardinality(columns) - 1) |->
                            CHOOSE c \in columns :
                                Cardinality({d \in columns : d < c}) = i])
        f == Array([i \in DOMAIN non_constant |-> FScore(seed, non_constant[i])])
        order == ArgSortDesc(f)
        best == Take(Array([i \in DOMAIN order |-> non_constant[order[i]]]),
                     word_length)
        selected == NpSort(IF word_length <= Size(non_constant) THEN best
                           ELSE old_support)
    IN  IF \E j \in DOMAIN selected : selected[j] >= Columns(dft)
        THEN [error |-> TRUE, support |-> selected, dft |-> dft,
              dft_length |-> dftlen]
        ELSE [error |-> FALSE, support |-> selected,
              dft |-> SelectColumns(dft, selected),
              dft_length |-> EvenLength(selected)]

\* the selection part of _binning (lines 232-263)
Select(seed, dft, labelled, dftlen, old_support) ==
    IF variance /\ labelled THEN SelectVariance(dft, dftlen)
    ELSE IF anova /\ labelled THEN SelectAnova(seed, dft, dftlen, old_support)
    ELSE [error |-> FALSE, support |-> old_support, dft |-> dft,
          dft_length |-> dftlen]

(***************************************************************************)
(* fit: the four binning strategies.                                       *)
(***************************************************************************)
\* McbRow without np.sort: the breakpoints are read from the column in data
\* order
McbRowUnsorted(dft, letter) ==
    LET column == Array([r \in DOMAIN dft |-> Round2(dft[r][letter])])
        last == Size(column) - 1
        target_bin_width == (column[last] - column[0]) \div alphabet_size
    IN  Array([bp \in 0..(alphabet_size - 1) |->
            IF bp = alphabet_size - 1 THEN FloatMax
            ELSE IF binning_method = "equi-depth"
                 THEN column[((bp + 1) * Size(dft)) \div alphabet_size]
            ELSE IF binning_method = "equi-width"
                 THEN (bp + 1) * target_bin_width + column[0]
            ELSE 0])

\* McbRow without breakpoints[:, alphabet_size - 1] = sys.float_info.max:
\* the last column keeps the zero np.zeros put there
McbRowNoSentinel(dft, letter) ==
    LET rounded == Array([r \in DOMAIN dft |-> Round2(dft[r][letter])])
        column == NpSort(rounded)
        last == Size(column) - 1
        target_bin_width == (column[last] - column[0]) \div alphabet_size
    IN  Array([bp \in 0..(alphabet_size - 1) |->
            IF bp = alphabet_size - 1 THEN 0
            ELSE IF binning_method = "equi-depth"
                 THEN column[((bp + 1) * Size(dft)) \div alphabet_size]
            ELSE IF binning_method = "equi-width"
                 THEN (bp + 1) * target_bin_width + column[0]
            ELSE 0])

\* one row of _mcb: equi-depth or equi-width breakpoints of a column, the
\* last column set to sys.float_info.max
McbRow(dft, letter) ==
    LET rounded == Array([r \in DOMAIN dft |-> Round2(dft[r][letter])])
        column == NpSort(rounded)
        last == Size(column) - 1
        target_bin_width == (column[last] - column[0]) \div alphabet_size
    IN  Array([bp \in 0..(alphabet_size - 1) |->
            IF bp = alphabet_size - 1 THEN FloatMax
            ELSE IF binning_method = "equi-depth"
                 THEN column[((bp + 1) * Size(dft)) \div alphabet_size]
            ELSE IF binning_method = "equi-width"
                 THEN (bp + 1) * target_bin_width + column[0]
            ELSE 0])

\* _mcb
Mcb(dft) == Array([letter \in 0..(word_length - 1) |-> McbRow(dft, letter)])

\* the most split nodes the tree of _igb can have: max_leaf_nodes leaves,
\* depth np.int32(np.log2(alphabet_size))
MaxThresholds == Min(alphabet_size - 1, Pow2(FloorLog2(alphabet_size)) - 1)

\* clf.tree_.threshold of the split nodes, in node order: count values of
\* the column in data order
TreeThresholds(dft, letter, count) ==
    Array([bp \in 0..(count - 1) |-> dft[bp][letter]])

\* one row of _igb: the thresholds, the unused slots np.inf, then np.sort
IgbRow(dft, letter, count) ==
    LET threshold == TreeThresholds(dft, letter, count)
    IN  NpSort(Array([bp \in 0..(alphabet_size - 1) |->
                    IF bp < Size(threshold) THEN threshold[bp] ELSE Inf]))

\* _igb
Igb(dft, count) ==
    Array([i \in 0..(word_length - 1) |-> IgbRow(dft, i, count)])

\* KBinsDiscretizer.fit: bin_edges_ is a one-dimensional array holding one
\* array of edges per column (minimum, interior edges, maximum; -inf, +inf
\* for a constant column)
KBinsEdges(dft, c) ==
    LET column == NpSort(Column(dft, c))
        last == Size(column) - 1
        distinct == Values(column)
        edges == Array([i \in 0..(Cardinality(distinct) - 1) |->
                    CHOOSE v \in distinct :
                        Cardinality({u \in distinct : u < v}) = i])
    IN  IF column[0] = column[last]
        THEN Array([i \in 0..1 |-> IF i = 0 THEN -Inf ELSE Inf])
        ELSE Take(edges, alphabet_size + 1)

KBinsDiscretizer(dft) ==
    [ndim |-> 1,
     bin_edges_ |-> Array([c \in 0..(Columns(dft) - 1) |-> KBinsEdges(dft, c)])]

\* KBinsDiscretizer.fit raises for a matrix without columns, and for a
\* column that is not constant and has fewer rows than bins
KBinsFails(dft) ==
    \/ Columns(dft) = 0
    \/ \E c \in 0..(Columns(dft) - 1) :
        /\ Variance(Column(dft, c)) # 0
        /\ Size(dft) < alphabet_size

\* one row of _k_bins_discretizer: breaks is bin_edges_ reshaped to one
\* column when it is one-dimensional; the edges between the first and the
\* last entry of breaks[letter] are copied, the last column is set to
\* sys.float_info.max
KBinsRow(encoder, letter) ==
    LET edges == encoder.bin_edges_[letter]
        row_length == IF encoder.ndim = 1 THEN 1 ELSE Size(edges)
    IN  Array([col \in 0..(alphabet_size - 1) |->
            IF col = alphabet_size - 1 THEN FloatMax
            ELSE IF col + 1 \in 1..(row_length - 2) THEN edges[col + 1]
            ELSE 0])

\* _k_bins_discretizer
KBins(dft) ==
    LET encoder == KBinsDiscretizer(dft)
    IN  Array([letter \in 0..(word_length - 1) |-> KBinsRow(encoder, letter)])

(***************************************************************************)
(* fit.                                                                    *)
(***************************************************************************)
\* the binning part of _binning (lines 265-270); every strategy reads the
\* columns 0..word_length-1 and raises when the matrix has fewer
BinningFails(dft) ==
    \/ Columns(dft) < word_length
    \/ binning_method = "kmeans" /\ KBinsFails(dft)

Binning(dft, count) ==
    IF binning_method = "information-gain" THEN Igb(dft, count)
    ELSE IF binning_method = "kmeans" THEN KBins(dft)
    ELSE Mcb(dft)

\* the interleaved index of the Fourier coefficient (after the norm offset)
\* that row j of the breakpoint table is computed from: column j of the
\* matrix the binning strategy is given, which is column sup[j] of the fit
\* matrix when a selection branch ran and column j when none ran
FitColumns(selected, sup) ==
    LET start == IF norm THEN 2 ELSE 0
    IN  Array([j \in 0..(word_length - 1) |->
            start + (IF selected THEN sup[j] ELSE j)])

\* ConfigError without the check that information-gain binning has labels
ConfigErrorUnlabelled(labelled) ==
    \/ alphabet_size < 2
    \/ variance /\ anova
    \/ binning_method \notin binning_methods

\* the checks at the head of fit (lines 156-168)
ConfigError(labelled) ==
    \/ alphabet_size < 2
    \/ binning_method = "information-gain" /\ ~labelled
    \/ variance /\ anova
    \/ binning_method \notin binning_methods

\* RaiseConfigError after self._is_fitted = True: the flag is set at the
\* head of fit instead of at its end
RaiseConfigErrorFitted ==
    /\ last_call' = "fit_config_error"
    /\ transformed' = NoTransform
    /\ is_fitted' = TRUE
    /\ UNCHANGED <<config, fitted, dft_length, support, letter_bits, word_bits,
                   max_bits, n_instances, series_length, breakpoints>>

\* a raise at the head of fit: the call ends before line 170, no field of
\* the object is assigned
RaiseConfigError ==
    /\ last_call' = "fit_config_error"
    /\ transformed' = NoTransform
    /\ UNCHANGED <<config, model, fitted>>

\* fit(X, y) on a panel of n series of length L, with or without labels;
\* seed picks the coefficient values, count the number of split nodes of
\* the information-gain trees
FitCall(n, L, labelled, seed, count) ==
    IF ConfigError(labelled) THEN RaiseConfigError
    ELSE
    /\ letter_bits' = CeilLog2(alphabet_size)
    /\ word_bits' = word_length * CeilLog2(alphabet_size)
    /\ max_bits' = IF bigrams THEN word_length * CeilLog2(alphabet_size) * 2
                   ELSE word_length * CeilLog2(alphabet_size)
    /\ n_instances' = n
    /\ series_length' = L
    /\ transformed' = NoTransform
    /\ UNCHANGED config
    /\ IF BinningDftFails(L, window_size, norm, dft_length)
       THEN /\ last_call' = "fit_error"
            /\ UNCHANGED <<support, dft_length, breakpoints, is_fitted, fitted>>
       ELSE
       LET dft == BinningDft(seed, n, L, window_size, norm, dft_length)
           selection == Select(seed, dft, labelled, dft_length, support)
       IN  /\ support' = selection.support
           /\ dft_length' = selection.dft_length
           /\ fitted' = [windows |-> BinningDftWindows(n, L, window_size),
                         dft |-> dft, labelled |-> labelled]
           /\ IF selection.error \/ BinningFails(selection.dft)
              THEN /\ last_call' = "fit_error"
                   /\ UNCHANGED <<breakpoints, is_fitted>>
              ELSE /\ breakpoints' = Binning(selection.dft, count)
                   /\ is_fitted' = TRUE
                   /\ last_call' = "fit"

\* whether fit reads the labels y for anything but their presence
ReadsLabels == binning_method = "information-gain" \/ anova \/ variance

\* the panels and labels fit is called with: FitInst series of one length,
\* labels where the configuration reads them; the sample of values follows
\* the panel's shape
Fit ==
    \E n \in {FitInst}, L \in 1..MaxLen :
        \E labelled \in IF ReadsLabels THEN BOOLEAN ELSE {FALSE} :
            \E count \in IF binning_method = "information-gain" /\ labelled
                         THEN 0..Min(MaxThresholds,
                                     n * CeilDiv(L, window_size) - 1)
                         ELSE {0} :
                FitCall(n, L, labelled, n + L, count)

(***************************************************************************)
(* transform: the sliding windows and their coefficient vectors.           *)
(***************************************************************************)
\* the distinct entries of an array in ascending order
Ascending(index) ==
    LET members == Values(index)
    IN  Array([j \in 0..(Cardinality(members) - 1) |->
            CHOOSE s \in members : Cardinality({t \in members : t < s}) = j])

\* the interleaved indices _mft returns, in the order of the returned
\* columns: the support shifted by start_offset when selection is active
\* (transformed2[:, :, mask]), else start_offset..length-1
MftColumns(dftlen, sup) ==
    LET start_offset == IF norm THEN 2 ELSE 0
        length == dftlen + start_offset + (dftlen % 2)
    IN  IF anova \/ variance
        THEN Ascending(Array([j \in DOMAIN sup |-> sup[j] + start_offset]))
        ELSE Array([j \in 0..(length - start_offset - 1) |-> start_offset + j])

\* indices[s] = True, indices[s + 1] = True or indices[s - 1] = True write
\* outside an array of length entries
MftIndexOutside(dftlen, sup) ==
    LET start_offset == IF norm THEN 2 ELSE 0
        length == dftlen + start_offset + (dftlen % 2)
    IN  /\ anova \/ variance
        /\ \E j \in DOMAIN sup :
            LET s == sup[j] + start_offset
            IN  s >= length \/ (s % 2 = 0 /\ s + 1 >= length)

\* end = max(1, len(X[0]) - window_size + 1)
MftEnd(L, W) == Max(1, L - W + 1)

\* the indices of the series the coefficients of window w are computed
\* from: X[:, :window_size] for window 0, then one value enters at
\* i + window_size - 1 and the value at i - 1 leaves
RECURSIVE MftWindow(_, _, _)
MftWindow(L, W, w) ==
    IF w = 0 THEN Indices(PySlice(0, W, L))
    ELSE (MftWindow(L, W, w - 1) \ {w - 1}) \cup {w + W - 1}

\* the indices _calc_incremental_mean_std sums for window w: series[0 :
\* window_size] for window 0, then series[w + window_size - 1] enters and
\* series[w - 1] leaves
RECURSIVE StdWindow(_, _, _)
StdWindow(L, W, w) ==
    IF w = 0 THEN Indices(PySlice(0, W, L))
    ELSE (StdWindow(L, W, w - 1) \ {w - 1}) \cup {w + W - 1}

\* the count _calc_incremental_mean_std divides the running sum and sum of
\* squares by: r_window_length = 1.0 / window_size
RunningCount(W) == W

\* the count np.std divides by in _fast_fourier_transform: the number of
\* values of the window it is given
NpStdCount(window) == Cardinality(window)

\* transformed[:, 0, 0::2] = reals[:, 0 : length // 2] fails as in fit
MftFails(L, W, dftlen, sup) ==
    LET start_offset == IF norm THEN 2 ELSE 0
        length == dftlen + start_offset + (dftlen % 2)
        first == PySlice(0, W, L)
    IN  \/ SliceAssignFails(RfftBins(first[2] - first[1]), length)
        \/ MftIndexOutside(dftlen, sup)

\* _mft: for every series a and window w the vector of coefficients; window
\* 0 is an rfft, the later windows are rotations of the window before, which
\* keep the imaginary part of frequency 0 at zero
Mft(seed, n, L, W, dftlen, sup) ==
    LET start_offset == IF norm THEN 2 ELSE 0
        length == dftlen + start_offset + (dftlen % 2)
        end == MftEnd(L, W)
        first == PySlice(0, W, L)
        bins == RfftBins(first[2] - first[1])
        columns == MftColumns(dftlen, sup)
    IN  Array([a \in 0..(n - 1) |->
            Array([w \in 0..(end - 1) |->
                Array([j \in DOMAIN columns |->
                    IF w = 0
                    THEN Rfft(seed, a * end, SourceIndex(bins, length, columns[j]),
                              first[2] - first[1])
                    ELSE IF columns[j] = 1 THEN 0
                    ELSE Sample(seed, a * end + w, columns[j])])])])

(***************************************************************************)
(* transform: words and bigrams.                                           *)
(***************************************************************************)
\* the table _transform_case hands to generate_words
CaseBreakpoints(table) ==
    IF alphabet_size = 2 THEN table
    ELSE Array([i \in DOMAIN table |->
            Array([bp \in 0..1 |-> IF bp = 0 THEN table[i][1] ELSE Inf])])

\* what a read of breakpoints[i, :] past the last row can find
GarbageRows ==
    {Array([bp \in 0..1 |-> Inf]),
     Array([bp \in 0..1 |-> IF bp = 0 THEN -Inf ELSE Inf]),
     Array([bp \in 0..1 |-> -Inf])}

\* the inner loop of generate_words: the first bp with value <= row[bp],
\* -1 when the loop ends without a break
Letter(value, row) ==
    IF \E bp \in DOMAIN row : value <= row[bp]
    THEN CHOOSE bp \in DOMAIN row :
            /\ value <= row[bp]
            /\ \A lower \in DOMAIN row : lower < bp => ~(value <= row[lower])
    ELSE -1

\* the letters of one coefficient vector; row i of the table is read for
\* position i, also when the table has no row i
Letters(vector, table, garbage) ==
    Array([i \in DOMAIN vector |->
        Letter(vector[i], IF i \in DOMAIN table THEN table[i] ELSE garbage)])

\* word = (word << letter_bits) | bp over the first count letters
RECURSIVE Word(_, _, _)
Word(letters, bits, count) ==
    IF count = 0 THEN {}
    ELSE LET word == Word(letters, bits, count - 1)
         IN  IF letters[count - 1] = -1 THEN word
             ELSE BitOr(Shl(word, bits), BitsOf(letters[count - 1]))

\* _create_bigram_word with its two words exchanged
CreateBigramWordSwapped(word, other_word, bits) ==
    BitOr(Shl(other_word, bits), word)

\* _create_bigram_word
CreateBigramWord(word, other_word, bits) == BitOr(Shl(word, bits), other_word)

\* the number of columns of the words array
RowSize(end, W) == IF bigrams THEN 2 * end - W ELSE end

\* the words array after the first count iterations of the two loops of
\* generate_words, as the flat buffer numba writes without bounds checks:
\* buffer holds the elements, outside the flat offsets written past its end
RECURSIVE WordsAfter(_, _, _, _, _, _, _)
WordsAfter(letters, n, end, W, lbits, wbits, count) ==
    IF count = 0
    THEN [buffer |-> Array([p \in 0..(n * RowSize(end, W) - 1) |-> {}]),
          outside |-> {}]
    ELSE
    LET before == WordsAfter(letters, n, end, W, lbits, wbits, count - 1)
        a == (count - 1) \div end
        window == (count - 1) % end
        word == Word(letters[a][window], lbits, Size(letters[a][window]))
        at == a * RowSize(end, W) + window
        stored == IF at \in DOMAIN before.buffer
                  THEN [before.buffer EXCEPT ![at] = ToInt32(word)]
                  ELSE before.buffer
        missed == IF at \in DOMAIN before.buffer THEN before.outside
                  ELSE before.outside \cup {at}
        other == a * RowSize(end, W) + (window - W)
        bigram_at == a * RowSize(end, W) + (end + window - W)
        bigram == CreateBigramWord(word, FromInt32(stored[other]), wbits)
    IN  IF bigrams /\ window - W >= 0
        THEN [buffer |-> [stored EXCEPT ![bigram_at] = ToInt32(bigram)],
              outside |-> missed]
        ELSE [buffer |-> stored, outside |-> missed]

\* generate_words: the rows of the words array
GenerateWords(letters, n, end, W, lbits, wbits) ==
    LET final == WordsAfter(letters, n, end, W, lbits, wbits, n * end)
        size == RowSize(end, W)
    IN  [words |-> Array([a \in 0..(n - 1) |->
                        Array([col \in 0..(size - 1) |->
                            final.buffer[a * size + col]])]),
         outside |-> final.outside]

\* self.check_is_fitted(): raises the not-fitted error unless a fit has set
\* the fitted flag
CheckIsFittedRaises == ~is_fitted

\* transform(X) on a panel of n series of length L; seed picks the
\* coefficient values, garbage what lies behind the breakpoint table
TransformCall(n, L, seed, garbage) ==
    /\ UNCHANGED <<config, model, fitted>>
    /\ IF CheckIsFittedRaises
       THEN /\ last_call' = "transform_not_fitted"
            /\ transformed' = NoTransform
       ELSE IF \/ MftFails(L, window_size, dft_length, support)
               \/ RowSize(MftEnd(L, window_size), window_size) < 0
       THEN /\ last_call' = "transform_error"
            /\ transformed' = NoTransform
       ELSE
       LET end == MftEnd(L, window_size)
           dfts == Mft(seed, n, L, window_size, dft_length, support)
           bp == CaseBreakpoints(breakpoints)
           letters == Array([a \in 0..(n - 1) |->
                          Array([w \in 0..(end - 1) |->
                              Letters(dfts[a][w], bp, garbage)])])
           result == GenerateWords(letters, n, end, window_size,
                                   letter_bits, word_bits)
       IN  /\ last_call' = "transform"
           /\ transformed' =
                [n_instances |-> n, series_length |-> L,
                 windows |-> Array([w \in 0..(end - 1) |->
                                MftWindow(L, window_size, w)]),
                 std_windows |-> Array([w \in 0..(end - 1) |->
                                    StdWindow(L, window_size, w)]),
                 dfts |-> dfts, bp |-> bp, letters |-> letters,
                 words |-> result.words, outside |-> result.outside]

\* whether generate_words reads a row the breakpoint table does not have
ReadsPastTable ==
    /\ is_fitted
    /\ Size(MftColumns(dft_length, support)) > Size(breakpoints)

Transform ==
    \E n \in 1..MaxTransformInst, L \in 1..MaxLen :
        \E garbage \in IF ReadsPastTable THEN GarbageRows
                       ELSE {Array([bp \in 0..1 |-> Inf])} :
            TransformCall(n, L, n + L, garbage)

Next == Fit \/ Transform

Spec == Init /\ [][Next]_vars

(***************************************************************************)
(* Properties.                                                             *)
(***************************************************************************)
\* the number of sliding windows of the last transform
Windows == Size(transformed.windows)

\* the series of the last transform
Series == 0..(transformed.n_instances - 1)

\* the smallest bin of a row of bins whose breakpoint is not below a value
SmallestBin(value, row) ==
    CHOOSE bp \in DOMAIN row :
        /\ value <= row[bp]
        /\ \A lower \in DOMAIN row : lower < bp => value > row[lower]

\* (word >> shift) & (2^bits - 1)
Extract(word, shift, bits) ==
    {b - shift : b \in {c \in word : c >= shift}} \cap (0..(bits - 1))

\* the bits of a non-negative int32 below 2^bits
Below(word, bits) == word \subseteq 0..(Min(bits, WordWidth - 1) - 1)

\* C1: after a successful fit every row of the stored breakpoint table is
\* non-decreasing from column 0 to column alphabet_size-1, whatever the
\* binning method and however few thresholds the method found for the row.
C1_RowsNonDecreasing ==
    is_fitted =>
        \A i \in DOMAIN breakpoints :
            \A bp \in 0..(alphabet_size - 2) :
                breakpoints[i][bp] <= breakpoints[i][bp + 1]

\* a fitted information-gain table with a row that has one threshold and
\* unused slots behind it
C1_Witness ==
    /\ last_call = "fit"
    /\ binning_method = "information-gain"
    /\ alphabet_size = 3
    /\ \E i \in DOMAIN breakpoints :
        /\ breakpoints[i][0] < Inf
        /\ breakpoints[i][1] = Inf

C3_LetterIsSmallestBin ==
    last_call = "transform" =>
        \A a \in Series : \A w \in DOMAIN transformed.letters[a] :
            \A i \in DOMAIN transformed.letters[a][w] :
                i \in DOMAIN breakpoints =>
                    transformed.letters[a][w][i] =
                        SmallestBin(transformed.dfts[a][w][i], breakpoints[i])

\* C4 as stated: every primary word is built from exactly word_length
\* letters, one per row of the breakpoint table, each in 0..alphabet_size-1,
\* so that 0 <= word < 2^word_bits and every bigram is below 2^(2*word_bits)
\* without wrap-around in the int32 output.
C4_WordFromWordLengthLetters ==
    last_call = "transform" =>
        \A a \in Series :
            /\ \A w \in DOMAIN transformed.letters[a] :
                /\ DOMAIN transformed.letters[a][w] = 0..(word_length - 1)
                /\ \A i \in DOMAIN transformed.letters[a][w] :
                    transformed.letters[a][w][i] \in 0..(alphabet_size - 1)
            /\ \A col \in DOMAIN transformed.words[a] :
                IF col < Windows
                THEN Below(transformed.words[a][col], word_bits)
                ELSE Below(transformed.words[a][col], 2 * word_bits)

\* C5 as stated: extracting letter i of a packed primary word as
\* (word >> ((word_length-1-i) * letter_bits)) & (2^letter_bits - 1) gives
\* the bin chosen for position i at encode time.
C5_RoundTrip ==
    last_call = "transform" =>
        \A a \in Series : \A w \in DOMAIN transformed.letters[a] :
            w \in DOMAIN transformed.words[a] =>
                \A i \in 0..(word_length - 1) :
                    /\ i \in DOMAIN transformed.letters[a][w]
                    /\ transformed.letters[a][w][i] # -1
                    /\ Extract(transformed.words[a][w],
                               (word_length - 1 - i) * letter_bits, letter_bits)
                         = BitsOf(transformed.letters[a][w][i])

\* C6: with bigrams enabled and n sliding windows, for every window w with
\* window_size <= w < n the output entry at n + w - window_size equals
\* (word[w] << word_bits) | word[w - window_size] in the int32 output, where
\* word[.] are the final primary words, and there is no other entry behind
\* the primary words.
C6_Bigrams ==
    (last_call = "transform" /\ bigrams /\ Windows >= window_size) =>
        \A a \in Series :
            /\ DOMAIN transformed.words[a] = 0..(2 * Windows - window_size - 1)
            /\ \A w \in window_size..(Windows - 1) :
                transformed.words[a][Windows + w - window_size] =
                    ToInt32(BitOr(Shl(FromInt32(transformed.words[a][w]),
                                      word_bits),
                                  FromInt32(transformed.words[a][w - window_size])))

\* a transform with a bigram of two different primary words
C6_Witness ==
    /\ last_call = "transform"
    /\ bigrams
    /\ Windows > window_size
    /\ \E w \in window_size..(Windows - 1) :
        /\ transformed.words[0][w] # transformed.words[0][w - window_size]
        /\ transformed.words[0][w] # {}
        /\ transformed.words[0][Windows + w - window_size] # {}

\* C7 as stated: for every n >= 1 and window_size >= 1, also n <
\* window_size, the output row of an instance holds the n primary words at
\* 0..n-1 in window order, then max(0, n - window_size) bigrams when bigrams
\* is enabled and nothing otherwise, and no write falls outside the row.
C7_RowLayout ==
    last_call = "transform" =>
        /\ transformed.outside = {}
        /\ \A a \in Series :
            /\ DOMAIN transformed.words[a] =
                0..(Windows + (IF bigrams THEN Max(0, Windows - window_size)
                               ELSE 0) - 1)
            /\ \A w \in 0..(Windows - 1) :
                transformed.words[a][w] =
                    ToInt32(Word(transformed.letters[a][w], letter_bits,
                                 Size(transformed.letters[a][w])))

\* C8 as stated: for a series of length L and window_size W with
\* 1 <= W <= L, transform computes exactly L - W + 1 sliding windows, window
\* w covering the indices w..w+W-1, and emits one primary word per window.
C8_SlidingWindows ==
    (last_call = "transform" /\ window_size <= transformed.series_length) =>
        /\ Windows = transformed.series_length - window_size + 1
        /\ \A w \in DOMAIN transformed.windows :
            /\ transformed.windows[w] = w..(w + window_size - 1)
            /\ transformed.std_windows[w] = w..(w + window_size - 1)
        /\ \A a \in Series :
            /\ Size(transformed.dfts[a]) = Windows
            /\ \A w \in 0..(Windows - 1) : w \in DOMAIN transformed.words[a]

\* C9 as stated: when window_size >= L, fit and transform each cut one
\* window per series, and that window holds all L values of the series.
C9_OneWholeWindow ==
    /\ (last_call = "fit" /\ window_size >= series_length) =>
        /\ Size(fitted.windows) = n_instances
        /\ \A r \in DOMAIN fitted.windows :
            Indices(<<fitted.windows[r][2], fitted.windows[r][3]>>)
                = 0..(series_length - 1)
    /\ (last_call = "transform" /\ window_size >= transformed.series_length) =>
        /\ Windows = 1
        /\ transformed.windows[0] = 0..(transformed.series_length - 1)
        /\ transformed.std_windows[0] = 0..(transformed.series_length - 1)

\* C10: at fit time a series of length L with window_size W <= L is cut into
\* ceil(L / W) windows of length W, window j before the last covering
\* [j*W, (j+1)*W) and the last covering [L-W, L); the fit matrix has one row
\* per (instance, window), instance after instance.
C10_FitWindows ==
    (last_call = "fit" /\ window_size <= series_length) =>
        LET per == CeilDiv(series_length, window_size)
        IN  /\ DOMAIN fitted.windows = 0..(n_instances * per - 1)
            /\ DOMAIN fitted.dft = DOMAIN fitted.windows
            /\ \A a \in 0..(n_instances - 1) : \A j \in 0..(per - 1) :
                fitted.windows[a * per + j] =
                    IF j < per - 1
                    THEN <<a, j * window_size, (j + 1) * window_size>>
                    ELSE <<a, series_length - window_size, series_length>>

\* a fit of two series whose last window overlaps the window before it
C10_Witness ==
    /\ last_call = "fit"
    /\ n_instances = 2
    /\ window_size < series_length
    /\ series_length % window_size # 0
    /\ fitted.windows[3] = <<1, series_length - window_size, series_length>>

\* how a fit call and how a transform call can end
FitOutcomes == {"fit", "fit_error", "fit_config_error"}

TransformOutcomes == {"transform", "transform_error", "transform_not_fitted"}

\* some fit call on the object has completed: only a completed fit stores a
\* breakpoint table
SomeFitCompleted == DOMAIN breakpoints # {}

\* C11: fit raises a configuration error, before it computes breakpoints or
\* bit widths and without marking the object fitted, whenever alphabet_size
\* < 2, or both anova and variance are requested, or binning_method is not
\* one of the four names, or binning_method is information-gain and no
\* labels are supplied (so a fit that gets past the checks with
\* information-gain had labels).
C11_ConfigError ==
    [][/\ (/\ last_call' \in FitOutcomes
           /\ \/ alphabet_size < 2
              \/ variance /\ anova
              \/ binning_method \notin binning_methods)
            => last_call' = "fit_config_error"
       /\ (last_call' \in {"fit", "fit_error"} /\ fitted' # fitted
           /\ binning_method = "information-gain")
            => fitted'.labelled
       /\ last_call' = "fit_config_error"
            => UNCHANGED <<breakpoints, support, dft_length, letter_bits,
                           word_bits, max_bits, is_fitted>>]_vars

\* a fitted information-gain object after a fit call without labels: the
\* call raised and the table of the earlier fit is still there
C11_Witness ==
    /\ last_call = "fit_config_error"
    /\ binning_method = "information-gain"
    /\ is_fitted
    /\ SomeFitCompleted
    /\ letter_bits > 0

\* C12: in every sequence of fit and transform calls a transform call
\* returns words only if an earlier fit call completed, and raises the
\* not-fitted error otherwise; a fit call that ends in a configuration error
\* does not make the object fitted.
C12_TransformNeedsFit ==
    [][/\ last_call' \in {"transform", "transform_error"} => SomeFitCompleted
       /\ last_call' = "transform_not_fitted" => ~SomeFitCompleted
       /\ last_call' = "fit_config_error" => is_fitted' = is_fitted]_vars

\* a transform call on an object whose only fit calls raised configuration
\* errors: it raised the not-fitted error
C12_Witness ==
    /\ last_call = "transform_not_fitted"
    /\ alphabet_size < 2
    /\ ~is_fitted
    /\ transformed = NoTransform

\* C13 as stated: a transform call leaves breakpoints, support, dft_length,
\* letter_bits, word_bits, max_bits and window_size as they were, and a
\* transform call on the input of the transform call before it returns the
\* same words.
C13_TransformFrame ==
    [][last_call' \in TransformOutcomes =>
        /\ UNCHANGED <<breakpoints, support, dft_length, letter_bits,
                       word_bits, max_bits, window_size>>
        /\ (/\ last_call = "transform"
            /\ last_call' = "transform"
            /\ transformed'.n_instances = transformed.n_instances
            /\ transformed'.series_length = transformed.series_length
            /\ transformed'.dfts = transformed.dfts)
             => transformed'.words = transformed.words]_vars

\* C14 as stated: after a fit call with variance selection enabled, with or
\* without labels, the support holds word_length column indices of the fit
\* matrix in ascending order, no column left out has a larger variance
\* than a column of the support, and dft_length is max(support) + 1 rounded
\* up to the next even number.
C14_VarianceSupport ==
    (last_call = "fit" /\ variance) =>
        LET columns == 0..(Columns(fitted.dft) - 1)
            var(c) == Variance(Column(fitted.dft, c))
            last == ArrMax(support) + 1
        IN  /\ DOMAIN support = 0..(word_length - 1)
            /\ \A j \in DOMAIN support : support[j] \in columns
            /\ \A j, k \in DOMAIN support : j < k => support[j] < support[k]
            /\ \A j \in DOMAIN support : \A c \in columns \ Values(support) :
                var(c) <= var(support[j])
            /\ dft_length = last + (last % 2)

\* C15: whenever anova or variance selection is active, after a successful
\* fit the support holds exactly word_length distinct coefficient indices in
\* ascending order, each below dft_length, and dft_length is even.
C15_SupportInvariant ==
    (last_call = "fit" /\ (anova \/ variance)) =>
        /\ DOMAIN support = 0..(word_length - 1)
        /\ \A j, k \in DOMAIN support : j < k => support[j] < support[k]
        /\ \A j \in DOMAIN support : support[j] \in 0..(dft_length - 1)
        /\ dft_length % 2 = 0

\* a successful anova fit with labels whose fit matrix has fewer than
\* word_length columns that are not constant
C15_Witness ==
    /\ last_call = "fit"
    /\ anova
    /\ fitted.labelled
    /\ Cardinality({c \in 0..(Columns(fitted.dft) - 1) :
                        Variance(Column(fitted.dft, c)) # 0}) < word_length

\* C16 as stated: after a successful fit letter_bits = ceil(log2(
\* alphabet_size)), word_bits = word_length * letter_bits and max_bits is
\* 2 * word_bits with bigrams and word_bits without; with alphabet_size = 2
\* letter_bits is 1 and a primary word is 0 exactly when every coefficient
\* of its window fell in bin 0.
C16_BitWidths ==
    /\ is_fitted =>
        /\ Pow2(letter_bits) >= alphabet_size
        /\ letter_bits > 0 => Pow2(letter_bits - 1) < alphabet_size
        /\ word_bits = word_length * letter_bits
        /\ max_bits = IF bigrams THEN 2 * word_bits ELSE word_bits
    /\ (last_call = "transform" /\ alphabet_size = 2) =>
        /\ letter_bits = 1
        /\ \A a \in Series : \A w \in 0..(Windows - 1) :
            w \in DOMAIN transformed.words[a] =>
                (transformed.words[a][w] = {}
                    <=> \A i \in DOMAIN transformed.letters[a][w] :
                            transformed.letters[a][w][i] = 0)

\* C17 as stated, in exact arithmetic: for every sliding position w the
\* coefficients _mft produces come from the values of series[w : w +
\* window_size], and the running sum and sum of squares are those of that
\* window, divided by the count np.std divides by in the direct transform
\* of the window.
C17_MftEqualsDirect ==
    last_call = "transform" =>
        \A w \in DOMAIN transformed.windows :
            LET direct == Indices(PySlice(w, w + window_size,
                                          transformed.series_length))
            IN  /\ transformed.windows[w] = direct
                /\ transformed.std_windows[w] = direct
                /\ RunningCount(window_size) = NpStdCount(direct)

\* C18 as stated: after successful fit calls, the value transform
\* discretizes at letter position j is the Fourier coefficient (the same
\* real/imag index after the norm offset and after selection) that the most
\* recent fit computed row j of the breakpoint table from.
C18_TransformUsesFitColumns ==
    [][(last_call = "fit" /\ last_call' = "transform") =>
        LET used == MftColumns(dft_length', support')
            binned == FitColumns((anova \/ variance) /\ fitted.labelled, support)
        IN  \A j \in 0..(word_length - 1) :
                /\ j \in DOMAIN used
                /\ used[j] = binned[j]]_vars

====
